---- MODULE Spec2Model ----
(***************************************************************************)
(* Model of the documentation generator's page logic (src/nav/page.go):    *)
(* link resolution and whole-body link rewriting, the .md -> .html          *)
(* extension rewrite, full-page rendering and writing, and insertion of    *)
(* pages into the navigation tree.                                          *)
(*                                                                          *)
(* Go strings are modelled as sequences of one-character strings, so that  *)
(* prefix tests, regular-expression matches, substring replacement and     *)
(* path normalisation are computed character by character.                  *)
(***************************************************************************)
EXTENDS Integers, Sequences, FiniteSets, TLC

VARIABLES
    inputPath,   \* Page.InputPath handed to the link resolver / rewriter
    linkPath,    \* the link handed to convertPackageLinkToUrl
    linkResult,  \* what convertPackageLinkToUrl returned ([called, val, err])
    body,        \* markdown body handed to convertMarkdownLinksToUrls
    newBody,     \* the body after the passes made so far
    passes,      \* number of convertMarkdownLinksToUrls passes applied
    lastBody,    \* the body before the latest pass
    bodyErr,     \* whether the latest pass returned an error
    mdPath,      \* path handed to replaceMdFileExtensionWithHtmlFileExtension
    mdResult,    \* what it returned ([called, val, err])
    page,        \* the Page being written ([OutputPath])
    rootOutputPath, \* the output root the page is written under
    writeResult, \* what WriteFullPageHtmlToOutputPath returned, and what the
                 \* template did in that call ([called, err, kind, tmpl])
    files,       \* output files on disk: set of [path, content]
    docPath,     \* path handed to getModuleDocOutputPath
    docResult,   \* what it returned ([called, val, err])
    folders,     \* the navigation tree: the Folders made so far, the root first,
                 \* each [Name, OutputPath, ParentFolder, Subfolders, Pages] with
                 \* folders named by their place in this list and pages by
                 \* their place in `inserted`
    inserted     \* the Pages inserted so far, in arrival order: [OutputPath]

vars == <<inputPath, linkPath, linkResult, body, newBody, passes, lastBody, bodyErr,
          mdPath, mdResult, page, rootOutputPath, writeResult, files, docPath, docResult,
          folders, inserted>>

linkVars == <<inputPath, linkPath, linkResult>>
bodyVars == <<body, newBody, passes, lastBody, bodyErr>>
mdVars == <<mdPath, mdResult>>
writeVars == <<page, rootOutputPath, writeResult, files>>
docVars == <<docPath, docResult>>
treeVars == <<folders, inserted>>

----------------------------------------------------------------------------
(* Bounds of the model *)

\* longest link, in path segments, handed to the link resolver
MaxLinkSegs == 3

\* longest body, in fragments, handed to the link rewriter
MaxBodyFrags == 3

\* number of times the link rewriter is applied to its own output
MaxPasses == 2

\* longest path, in segments, handed to the extension rewrite
MaxMdSegs == 3

\* number of pages inserted into the navigation tree
MaxPages == 3

----------------------------------------------------------------------------
(* Characters and strings *)

Lower == {"a","b","c","d","e","f","g","h","i","j","k","l","m",
          "n","o","p","q","r","s","t","u","v","w","x","y","z"}
Upper == {"A","B","C","D","E","F","G","H","I","J","K","L","M",
          "N","O","P","Q","R","S","T","U","V","W","X","Y","Z"}
Digit == {"0","1","2","3","4","5","6","7","8","9"}

\* [A-Za-z0-9_.-] : the last class of FILE_PATHS_REGEX
IsFileNameChar(c) == c \in Lower \cup Upper \cup Digit \cup {"_", ".", "-"}

\* [A-Za-z0-9_/.-] : the path-token class of FILE_PATHS_REGEX
IsPathTokenChar(c) == IsFileNameChar(c) \/ c = "/"

\* [\w -] : the package-name class of PACKAGE_FILE_REGEX
IsPackageNameChar(c) == c \in Lower \cup Upper \cup Digit \cup {"_", " ", "-"}

\* . : any character but a line break
IsDotChar(c) == c # "\n"

\* strings.HasPrefix
HasPrefix(s, prefix) ==
    /\ Len(prefix) <= Len(s)
    /\ SubSeq(s, 1, Len(prefix)) = prefix

\* strings.HasSuffix
HasSuffix(s, suffix) ==
    /\ Len(suffix) <= Len(s)
    /\ SubSeq(s, Len(s) - Len(suffix) + 1, Len(s)) = suffix

\* s[i:] of Go, with i counted from 1
From(s, i) == SubSeq(s, i, Len(s))

\* whether sub occurs in s at position i (1-based)
OccursAt(s, sub, i) ==
    /\ i + Len(sub) - 1 <= Len(s)
    /\ SubSeq(s, i, i + Len(sub) - 1) = sub

\* strings.Contains
Contains(s, sub) == \E i \in 1..(Len(s) + 1) : OccursAt(s, sub, i)

\* strings.Index, 1-based; 0 when sub does not occur
Index(s, sub) ==
    IF Contains(s, sub)
    THEN CHOOSE i \in 1..(Len(s) + 1) :
            /\ OccursAt(s, sub, i)
            /\ \A j \in 1..(i - 1) : ~OccursAt(s, sub, j)
    ELSE 0

RECURSIVE ReplaceN(_, _, _, _)
\* strings.Replace(s, old, new, n) for a non-empty old: the first n
\* non-overlapping occurrences from the left (all of them when n < 0)
ReplaceN(s, old, new, n) ==
    LET i == Index(s, old)
    IN  IF n = 0 \/ i = 0
        THEN s
        ELSE SubSeq(s, 1, i - 1) \o new
                \o ReplaceN(From(s, i + Len(old)), old, new, IF n < 0 THEN n ELSE n - 1)

\* strings.Replace(s, old, new, -1)
ReplaceAll(s, old, new) == ReplaceN(s, old, new, -1)

RECURSIVE Split(_)
\* strings.Split(s, "/")
Split(s) ==
    LET i == Index(s, <<"/">>)
    IN  IF i = 0 THEN <<s>> ELSE <<SubSeq(s, 1, i - 1)>> \o Split(From(s, i + 1))

RECURSIVE JoinSegs(_)
\* strings.Join(segs, "/")
JoinSegs(segs) ==
    IF segs = <<>> THEN <<>>
    ELSE IF Len(segs) = 1 THEN segs[1]
    ELSE segs[1] \o <<"/">> \o JoinSegs(Tail(segs))

\* index of the last "/" of s, 0 when there is none
LastSlash(s) ==
    IF \E i \in 1..Len(s) : s[i] = "/"
    THEN CHOOSE i \in 1..Len(s) : s[i] = "/" /\ \A j \in (i + 1)..Len(s) : s[j] # "/"
    ELSE 0

----------------------------------------------------------------------------
(* path/filepath *)

RECURSIVE CleanSegs(_, _, _)
\* the element stack of filepath.Clean: "" and "." are dropped, ".." removes
\* the element before it, is dropped at the root of a rooted path and is kept
\* at the start of a relative one
CleanSegs(segs, stack, rooted) ==
    IF segs = <<>> THEN stack
    ELSE LET seg == Head(segs)
             rest == Tail(segs)
         IN  IF seg = <<>> \/ seg = <<".">>
             THEN CleanSegs(rest, stack, rooted)
             ELSE IF seg = <<".", ".">>
             THEN IF stack # <<>> /\ stack[Len(stack)] # <<".", ".">>
                  THEN CleanSegs(rest, SubSeq(stack, 1, Len(stack) - 1), rooted)
                  ELSE IF rooted
                  THEN CleanSegs(rest, stack, rooted)
                  ELSE CleanSegs(rest, Append(stack, seg), rooted)
             ELSE CleanSegs(rest, Append(stack, seg), rooted)

\* filepath.Clean
Clean(path) ==
    LET rooted == path # <<>> /\ path[1] = "/"
        out == JoinSegs(CleanSegs(Split(path), <<>>, rooted))
    IN  IF rooted THEN <<"/">> \o out
        ELSE IF out = <<>> THEN <<".">>
        ELSE out

\* filepath.Join(a, b, c): empty elements are ignored, the rest joined by "/"
\* and cleaned; the empty string when every element is empty
Join3(a, b, c) ==
    LET elems == SelectSeq(<<a, b, c>>, LAMBDA e : e # <<>>)
    IN  IF elems = <<>> THEN <<>> ELSE Clean(JoinSegs(elems))

\* filepath.Join(a, b)
Join2(a, b) == Join3(a, b, <<>>)

\* filepath.Dir: everything up to the last "/", cleaned
Dir(path) == Clean(SubSeq(path, 1, LastSlash(path)))

----------------------------------------------------------------------------
(* Constants of page.go *)

\* "packages/" : the literal head of PACKAGE_FILE_REGEX
PACKAGES_SLASH == <<"p","a","c","k","a","g","e","s","/">>

\* "<package-name>"
PACKAGE_NAME_PLACEHOLDER ==
    <<"<","p","a","c","k","a","g","e","-","n","a","m","e",">">>

\* "https://github.com/gruntwork-io/<package-name>/tree/master"
PACKAGE_GITHUB_REPO_URL_PREFIX ==
    <<"h","t","t","p","s",":","/","/","g","i","t","h","u","b",".","c","o","m","/",
      "g","r","u","n","t","w","o","r","k","-","i","o","/">>
    \o PACKAGE_NAME_PLACEHOLDER
    \o <<"/","t","r","e","e","/","m","a","s","t","e","r">>

HTTP == <<"h","t","t","p",":","/","/">>
HTTPS == <<"h","t","t","p","s",":","/","/">>

PACKAGE_FILE_REGEX_NUM_CAPTURE_GROUPS == 2
MARKDOWN_FILE_PATH_REGEX_NUM_CAPTURE_GROUPS == 1

----------------------------------------------------------------------------
(* PACKAGE_FILE_REGEX: "packages/", a package name, then "/" and the rest *)

\* regex.FindAllStringSubmatch(inputPath, -1) under PACKAGE_FILE_REGEX: the
\* list of matches, each <<whole match, group 1, group 2>>.  The pattern is
\* anchored at both ends, so there is at most one match.  Group 1 cannot
\* hold a "/", so it ends at the first "/" after "packages/".
PackageFileSubmatches(path) ==
    IF ~HasPrefix(path, PACKAGES_SLASH) THEN <<>>
    ELSE LET rest == From(path, Len(PACKAGES_SLASH) + 1)
             i == Index(rest, <<"/">>)
         IN  IF /\ i > 1
                /\ \A k \in 1..(i - 1) : IsPackageNameChar(rest[k])
                /\ \A k \in i..Len(rest) : IsDotChar(rest[k])
             THEN << <<path, SubSeq(rest, 1, i - 1), From(rest, i)>> >>
             ELSE <<>>

\* isPackageInputPath
isPackageInputPath(path) == PackageFileSubmatches(path) # <<>>

\* getPackageName: [val, err]
getPackageName(path) ==
    LET submatches == PackageFileSubmatches(path)
    IN  IF \/ Len(submatches) = 0
           \/ Len(submatches[1]) # PACKAGE_FILE_REGEX_NUM_CAPTURE_GROUPS + 1
        THEN [val |-> <<>>, err |-> TRUE]
        ELSE [val |-> submatches[1][2], err |-> FALSE]

\* getPathRelativeToPackageRoot that expects as many entries in a match as
\* there are capture groups, leaving out the entry of the whole match
getPathRelativeToPackageRootMiscounted(path) ==
    LET submatches == PackageFileSubmatches(path)
    IN  IF \/ Len(submatches) = 0
           \/ Len(submatches[1]) # PACKAGE_FILE_REGEX_NUM_CAPTURE_GROUPS
        THEN [val |-> <<>>, err |-> TRUE]
        ELSE [val |-> submatches[1][3], err |-> FALSE]

\* getPathRelativeToPackageRoot: [val, err]
getPathRelativeToPackageRoot(path) ==
    LET submatches == PackageFileSubmatches(path)
    IN  IF \/ Len(submatches) = 0
           \/ Len(submatches[1]) # PACKAGE_FILE_REGEX_NUM_CAPTURE_GROUPS + 1
        THEN [val |-> <<>>, err |-> TRUE]
        ELSE [val |-> submatches[1][3], err |-> FALSE]

----------------------------------------------------------------------------
(* convertPackageLinkToUrl *)

\* the url prefix of a package: PACKAGE_GITHUB_REPO_URL_PREFIX with the
\* first "<package-name>" replaced by the package name
UrlPrefix(packageName) ==
    ReplaceN(PACKAGE_GITHUB_REPO_URL_PREFIX, PACKAGE_NAME_PLACEHOLDER, packageName, 1)

\* the `if strings.HasPrefix(linkPath, "/")` step: url after it
UrlAfterAbsolute(url, urlPrefix, link) ==
    IF HasPrefix(link, <<"/">>) THEN urlPrefix \o link ELSE url

\* the `if strings.HasPrefix(linkPath, "./")` step: [val, err, returned]
UrlAfterSameDir(url, urlPrefix, path, link) ==
    IF HasPrefix(link, <<".", "/">>)
    THEN LET rel == getPathRelativeToPackageRoot(path)
         IN  IF rel.err THEN [val |-> url, err |-> TRUE, returned |-> TRUE]
             ELSE [val |-> urlPrefix \o rel.val, err |-> FALSE, returned |-> FALSE]
    ELSE [val |-> url, err |-> FALSE, returned |-> FALSE]

\* UrlAfterParent with the relative path, "../" and the link put together
\* by "/" but not normalized
UrlAfterParentUnjoined(url, urlPrefix, path, link) ==
    IF HasPrefix(link, <<".", ".", "/">>)
    THEN LET rel == getPathRelativeToPackageRoot(path)
         IN  IF rel.err THEN [val |-> url, err |-> TRUE]
             ELSE [val |-> urlPrefix \o rel.val \o <<"/", ".", ".", "/">> \o link,
                   err |-> FALSE]
    ELSE [val |-> url, err |-> FALSE]

\* the `if strings.HasPrefix(linkPath, "../")` step: [val, err]
UrlAfterParent(url, urlPrefix, path, link) ==
    IF HasPrefix(link, <<".", ".", "/">>)
    THEN LET rel == getPathRelativeToPackageRoot(path)
         IN  IF rel.err THEN [val |-> url, err |-> TRUE]
             ELSE [val |-> urlPrefix \o Join3(rel.val, <<".", ".", "/">>, link),
                   err |-> FALSE]
    ELSE [val |-> url, err |-> FALSE]

\* convertPackageLinkToUrl(inputPath, linkPath): [val, err]
convertPackageLinkToUrl(path, link) ==
    IF isPackageInputPath(path)
    THEN LET name == getPackageName(path)
         IN  IF name.err THEN [val |-> <<>>, err |-> TRUE]
             ELSE LET urlPrefix == UrlPrefix(name.val)
                      u1 == UrlAfterAbsolute(<<>>, urlPrefix, link)
                      u2 == UrlAfterSameDir(u1, urlPrefix, path, link)
                  IN  IF u2.returned THEN [val |-> u2.val, err |-> u2.err]
                      ELSE UrlAfterParent(u2.val, urlPrefix, path, link)
    ELSE [val |-> link, err |-> FALSE]

----------------------------------------------------------------------------
(* FILE_PATHS_REGEX: an optional "http:/" or "https:/", then "/" and one or *)
(* more path-token characters; or else one or more path-token characters,  *)
(* a "/", and any number of file-name characters                            *)

RECURSIVE PathTokenRun(_, _)
\* the length of the longest run of path-token characters of s from i on
PathTokenRun(s, i) ==
    IF i <= Len(s) /\ IsPathTokenChar(s[i]) THEN 1 + PathTokenRun(s, i + 1) ELSE 0

\* length of the match of `(/[A-Za-z0-9_/.-]+)` at i, 0 when there is none
SlashTokenLen(s, i) ==
    IF i <= Len(s) /\ s[i] = "/" /\ PathTokenRun(s, i + 1) >= 1
    THEN 1 + PathTokenRun(s, i + 1)
    ELSE 0

\* length of the match of the first alternative at i, 0 when there is none:
\* the optional scheme is tried as "http:/", then "https:/", then left out
FilePathsAlt1Len(s, i) ==
    IF OccursAt(s, SubSeq(HTTP, 1, 6), i) /\ SlashTokenLen(s, i + 6) > 0
    THEN 6 + SlashTokenLen(s, i + 6)
    ELSE IF OccursAt(s, SubSeq(HTTPS, 1, 7), i) /\ SlashTokenLen(s, i + 7) > 0
    THEN 7 + SlashTokenLen(s, i + 7)
    ELSE SlashTokenLen(s, i)

\* length of the match of the second alternative at i, 0 when there is none:
\* the greedy first class backtracks to the last "/" of the run that leaves
\* it at least one character, and the file-name class takes the rest of the
\* run
FilePathsAlt2Len(s, i) ==
    LET run == PathTokenRun(s, i)
        cuts == {k \in 1..(run - 1) : s[i + k] = "/"}
    IN  IF cuts = {} THEN 0
        ELSE LET k == CHOOSE c \in cuts : \A d \in cuts : d <= c
             IN  k + 1 + PathTokenRun(s, i + k + 1)

\* length of the leftmost-first match of FILE_PATHS_REGEX at i
FilePathsMatchLen(s, i) ==
    IF FilePathsAlt1Len(s, i) > 0 THEN FilePathsAlt1Len(s, i) ELSE FilePathsAlt2Len(s, i)

RECURSIVE FilePathsFindAll(_, _)
\* regex.FindAllStringSubmatch(body, -1): submatch[0] of each successive,
\* non-overlapping match, left to right
FilePathsFindAll(s, i) ==
    IF i > Len(s) THEN <<>>
    ELSE LET n == FilePathsMatchLen(s, i)
         IN  IF n > 0
             THEN <<SubSeq(s, i, i + n - 1)>> \o FilePathsFindAll(s, i + n)
             ELSE FilePathsFindAll(s, i + 1)

\* getAllLinkPaths
getAllLinkPaths(b) ==
    SelectSeq(FilePathsFindAll(b, 1),
              LAMBDA relPath : ~Contains(relPath, HTTP) /\ ~Contains(relPath, HTTPS))

\* the loop body of convertMarkdownLinksToUrls for one link and its url
ReplaceLink(b, link, url) ==
    LET withParens == ReplaceAll(b, <<"(">> \o link \o <<")">>, <<"(">> \o url \o <<")">>)
    IN  ReplaceAll(withParens, <<" ">> \o link \o <<" ">>, <<" ">> \o url \o <<" ">>)

RECURSIVE ConvertLoop(_, _, _)
\* the loop of convertMarkdownLinksToUrls over the remaining links: [val, err]
ConvertLoop(path, b, links) ==
    IF links = <<>> THEN [val |-> b, err |-> FALSE]
    ELSE LET r == convertPackageLinkToUrl(path, Head(links))
         IN  IF r.err THEN [val |-> b, err |-> TRUE]
             ELSE ConvertLoop(path, ReplaceLink(b, Head(links), r.val), Tail(links))

\* convertMarkdownLinksToUrls(inputPath, body): [val, err]
convertMarkdownLinksToUrls(path, b) == ConvertLoop(path, b, getAllLinkPaths(b))

----------------------------------------------------------------------------
(* Inputs of the link resolver *)

\* results of a function not called yet
NotCalled == [called |-> FALSE, val |-> <<>>, err |-> FALSE]

\* all sequences over S of length 1..n
SeqsUpTo(S, n) == UNION {[1..k -> S] : k \in 1..n}

\* "packages/" \o rest
Pkg(rest) == PACKAGES_SLASH \o rest

\* the input paths tried: package pages at several depths, with and without
\* blanks in the package name and in the folders, and pages outside packages
InputPaths ==
    { Pkg(<<"p","/","m","/","a",".","m","d">>),          \* packages/p/m/a.md
      Pkg(<<"p","/","a",".","m","d">>),                  \* packages/p/a.md
      Pkg(<<"p"," ","q","/","m","/","a",".","m","d">>),  \* packages/p q/m/a.md
      Pkg(<<"p","/","m"," ","d","/","a",".","m","d">>),  \* packages/p/m d/a.md
      Pkg(<<"p","-","1","/","m","/","n","/","R">>),      \* packages/p-1/m/n/R
      Pkg(<<"p","/","m","/",".",".","/","a">>),          \* packages/p/m/../a
      Pkg(<<"p",".","q","/","a",".","m","d">>),          \* packages/p.q/a.md
      Pkg(<<"p">>),                                      \* packages/p
      <<"g","l","o","b","a","l","/","a",".","m","d">> }  \* global/a.md

\* the segments links are made of
LinkSegs == { <<>>, <<".">>, <<".", ".">>, <<"x">>, <<"b", ".", "m", "d">> }

\* the links tried: every join of up to MaxLinkSegs segments that
\* getAllLinkPaths finds as one link when it stands alone in a body
LinkPaths ==
    { l \in { JoinSegs(segs) : segs \in SeqsUpTo(LinkSegs, MaxLinkSegs) } :
        getAllLinkPaths(l) = <<l>> }

LinkIdle == inputPath = <<>> /\ linkPath = <<>> /\ linkResult = NotCalled
BodyIdle ==
    body = <<>> /\ newBody = <<>> /\ passes = 0 /\ lastBody = <<>> /\ bodyErr = FALSE
MdIdle == mdPath = <<>> /\ mdResult = NotCalled
WriteIdle ==
    /\ page = [OutputPath |-> <<>>] /\ rootOutputPath = <<>>
    /\ writeResult = NotCalled /\ files = {}
DocIdle == docPath = <<>> /\ docResult = NotCalled
TreeIdle == folders = <<>> /\ inserted = <<>>

LinkInit ==
    /\ inputPath \in InputPaths
    /\ linkPath \in LinkPaths
    /\ linkResult = NotCalled
    /\ BodyIdle /\ MdIdle /\ WriteIdle /\ DocIdle /\ TreeIdle

\* one call of convertPackageLinkToUrl(inputPath, linkPath)
ResolveLink ==
    /\ ~linkResult.called
    /\ linkResult' = [called |-> TRUE]
                        @@ convertPackageLinkToUrl(inputPath, linkPath)
    /\ UNCHANGED <<inputPath, linkPath, bodyVars, mdVars, writeVars, docVars, treeVars>>

LinkNext == ResolveLink

SpecLink == LinkInit /\ [][LinkNext]_vars

----------------------------------------------------------------------------
(* What the link resolver is expected to return *)

\* the package of a package-scoped path: its second segment
ExpectedPackageName(path) == Split(path)[2]

\* https://github.com/gruntwork-io/<pkg>/tree/master
ExpectedUrlPrefix(path) ==
    <<"h","t","t","p","s",":","/","/","g","i","t","h","u","b",".","c","o","m","/",
      "g","r","u","n","t","w","o","r","k","-","i","o","/">>
    \o ExpectedPackageName(path)
    \o <<"/","t","r","e","e","/","m","a","s","t","e","r">>

\* the segments of a package-scoped path below its package
SegsBelowPackage(path) == SubSeq(Split(path), 3, Len(Split(path)))

\* the path of a package-scoped path relative to its package root
ExpectedRelPath(path) == <<"/">> \o JoinSegs(SegsBelowPackage(path))

\* the part of a url after the package's prefix
UrlSuffix(path, url) == From(url, Len(ExpectedUrlPrefix(path)) + 1)

\* C1: for a package-scoped inputPath and any link found in a body,
\* convertPackageLinkToUrl returns a url that starts with the GitHub prefix
\* of the path's package (never an empty or prefix-less string).
C1_UrlStartsWithPackagePrefix ==
    (linkResult.called /\ isPackageInputPath(inputPath))
        => /\ ~linkResult.err
           /\ HasPrefix(linkResult.val, ExpectedUrlPrefix(inputPath))

\* C2: for a package-scoped inputPath and a link "./<rest>", the url is the
\* package prefix, the path of inputPath relative to the package root, and
\* <rest> appended.
C2_SameDirLinkKeepsRest ==
    (linkResult.called /\ isPackageInputPath(inputPath) /\ HasPrefix(linkPath, <<".", "/">>))
        => linkResult.val = ExpectedUrlPrefix(inputPath) \o ExpectedRelPath(inputPath)
                                \o From(linkPath, 3)

RECURSIVE Walk(_, _)
\* the folder reached from the folder `at` (a list of names below the package
\* root) by following the segments of a relative reference: ".." goes up one
\* folder and stays at the root, "." and "" stay, a name goes down
Walk(at, segs) ==
    IF segs = <<>> THEN at
    ELSE LET seg == Head(segs)
         IN  Walk(CASE seg = <<".", ".">> ->
                        IF at = <<>> THEN at ELSE SubSeq(at, 1, Len(at) - 1)
                    [] seg \in {<<>>, <<".">>} -> at
                    [] OTHER -> Append(at, seg),
                  Tail(segs))

\* C3: for a package-scoped inputPath and a link "../<rest>", the url is the
\* package prefix followed by the normalized join of the path relative to
\* the package root, "../" and the link: the suffix begins with "/", holds
\* no ".." segment, and names what the segments of the relative path, ".."
\* and the segments of the link reach from the package root.
C3_ParentLinkIsNormalizedJoin ==
    (linkResult.called /\ isPackageInputPath(inputPath)
                       /\ HasPrefix(linkPath, <<".", ".", "/">>))
        => /\ ~linkResult.err
           /\ HasPrefix(linkResult.val, ExpectedUrlPrefix(inputPath))
           /\ LET suffix == UrlSuffix(inputPath, linkResult.val)
              IN  /\ HasPrefix(suffix, <<"/">>)
                  /\ \A k \in 1..Len(Split(suffix)) : Split(suffix)[k] # <<".", ".">>
                  /\ suffix = <<"/">> \o JoinSegs(Walk(<<>>, SegsBelowPackage(inputPath)
                                                            \o << <<".", ".">> >>
                                                            \o Split(linkPath)))

\* C3's case: a "../" link with a second ".." in it was resolved for a
\* package page two folders deep, and the segments have collapsed
C3_Witness ==
    /\ linkResult.called
    /\ inputPath = Pkg(<<"p","-","1","/","m","/","n","/","R">>)
    /\ linkPath = <<".",".","/",".",".","/","x">>
    /\ UrlSuffix(inputPath, linkResult.val) = <<"/","x">>

----------------------------------------------------------------------------
(* Whole-body link rewriting *)

\* the input paths of the pages whose bodies are rewritten
BodyInputPaths ==
    { Pkg(<<"p","/","m","/","a",".","m","d">>),          \* packages/p/m/a.md
      Pkg(<<"p"," ","q","/","a",".","m","d">>),          \* packages/p q/a.md
      Pkg(<<"p","/","m"," ","d","/","a",".","m","d">>),  \* packages/p/m d/a.md
      <<"g","l","o","b","a","l","/","a",".","m","d">> }  \* global/a.md

\* the pieces bodies are made of: blanks, parentheses, a word, links of
\* every shape and links that are fully qualified already
BodyFrags ==
    { <<" ">>, <<"(">>, <<")">>, <<"w">>,
      <<"/","x">>, <<".","/","x">>, <<".",".","/","x">>, <<"x","/","y">>,
      HTTP \o <<"h","/","x">>, HTTPS \o <<"h","/","x">> }

RECURSIVE Concat(_)
\* the concatenation of a sequence of strings
Concat(frags) == IF frags = <<>> THEN <<>> ELSE Head(frags) \o Concat(Tail(frags))

\* the bodies tried
Bodies == { Concat(frags) : frags \in SeqsUpTo(BodyFrags, MaxBodyFrags) }

BodyInit ==
    /\ inputPath \in BodyInputPaths
    /\ body \in Bodies
    /\ newBody = body
    /\ lastBody = body
    /\ passes = 0
    /\ bodyErr = FALSE
    /\ linkPath = <<>> /\ linkResult = NotCalled
    /\ MdIdle /\ WriteIdle /\ DocIdle /\ TreeIdle

\* one call of convertMarkdownLinksToUrls(inputPath, newBody), on the body
\* as the passes before it left it
RewriteLinks ==
    /\ passes < MaxPasses
    /\ ~bodyErr
    /\ LET r == convertMarkdownLinksToUrls(inputPath, newBody)
       IN  /\ newBody' = r.val
           /\ bodyErr' = r.err
    /\ lastBody' = newBody
    /\ passes' = passes + 1
    /\ UNCHANGED <<inputPath, body, linkPath, linkResult, mdVars, writeVars, docVars, treeVars>>

BodyNext == RewriteLinks

SpecBody == BodyInit /\ [][BodyNext]_vars

\* the fully qualified links of a body: the matches of FILE_PATHS_REGEX
\* that hold "http://" or "https://"
QualifiedLinks(b) ==
    SelectSeq(FilePathsFindAll(b, 1),
              LAMBDA t : Contains(t, HTTP) \/ Contains(t, HTTPS))

RECURSIVE IsSubsequence(_, _)
\* whether the elements of a occur in b, in a's order
IsSubsequence(a, b) ==
    IF a = <<>> THEN TRUE
    ELSE IF b = <<>> THEN FALSE
    ELSE IF Head(a) = Head(b) THEN IsSubsequence(Tail(a), Tail(b))
    ELSE IsSubsequence(a, Tail(b))

\* C4: convertMarkdownLinksToUrls leaves links that are fully qualified
\* already as they are, whatever else the body holds: the fully qualified
\* links of the body are still there after a pass, and a pass over the
\* output of an earlier pass changes nothing.
C4_QualifiedLinksUntouched ==
    /\ (passes >= 1 /\ ~bodyErr)
            => IsSubsequence(QualifiedLinks(lastBody), QualifiedLinks(newBody))
    /\ (passes >= 2 /\ ~bodyErr) => newBody = lastBody

----------------------------------------------------------------------------
(* replaceMdFileExtensionWithHtmlFileExtension *)

DOT_MD == <<".", "m", "d">>
DOT_HTML == <<".", "h", "t", "m", "l">>

\* regex.FindAllStringSubmatch(path, -1) under MARKDOWN_FILE_PATH_REGEX,
\* any characters, "/", a captured file name, ".md" at the end: the list of
\* matches, each <<whole match, group 1>>.  The pattern is anchored at both
\* ends; its greedy head runs to the last "/" of the path, which lies before
\* the final ".md", and group 1 is what stands between the two.
MarkdownFilePathSubmatches(path) ==
    IF /\ HasSuffix(path, DOT_MD)
       /\ LastSlash(path) > 0
       /\ \A k \in 1..Len(path) : IsDotChar(path[k])
    THEN << <<path, SubSeq(path, LastSlash(path) + 1, Len(path) - Len(DOT_MD))>> >>
    ELSE <<>>

\* replaceMdFileExtensionWithHtmlFileExtension(path): [val, err]
replaceMdFileExtensionWithHtmlFileExtension(path) ==
    LET submatches == MarkdownFilePathSubmatches(path)
    IN  IF \/ Len(submatches) = 0
           \/ Len(submatches[1]) # MARKDOWN_FILE_PATH_REGEX_NUM_CAPTURE_GROUPS + 1
        THEN [val |-> <<>>, err |-> TRUE]
        ELSE LET filename == submatches[1][2]
                 filenameDotMd == filename \o DOT_MD
                 filenameDotHtml == filename \o DOT_HTML
             IN  [val |-> ReplaceAll(path, filenameDotMd, filenameDotHtml), err |-> FALSE]

\* the segments the paths are made of
MdSegs ==
    { <<>>, <<"a">>, <<"a",".","m","d">>, <<"b","a",".","m","d">>, <<".","m","d">>,
      <<"a",".","m","d","x">>, <<"a",".","h","t","m","l">>, <<"a",".","m","k","d">> }

\* the paths tried: every join of up to MaxMdSegs segments
MdPaths == { JoinSegs(segs) : segs \in SeqsUpTo(MdSegs, MaxMdSegs) }

MdInit ==
    /\ mdPath \in MdPaths
    /\ mdResult = NotCalled
    /\ LinkIdle /\ BodyIdle /\ WriteIdle /\ DocIdle /\ TreeIdle

\* one call of replaceMdFileExtensionWithHtmlFileExtension(mdPath)
ReplaceExtension ==
    /\ ~mdResult.called
    /\ mdResult' = [called |-> TRUE]
                      @@ replaceMdFileExtensionWithHtmlFileExtension(mdPath)
    /\ UNCHANGED <<mdPath, linkVars, bodyVars, writeVars, docVars, treeVars>>

MdNext == ReplaceExtension

SpecMd == MdInit /\ [][MdNext]_vars

\* C5: for a path that ends in ".md" the call succeeds and returns the path
\* with only that trailing ".md" replaced by ".html"; for any other path it
\* returns an error.
C5_OnlyTrailingMdReplaced ==
    mdResult.called
        => IF HasSuffix(mdPath, DOT_MD)
           THEN /\ ~mdResult.err
                /\ mdResult.val = SubSeq(mdPath, 1, Len(mdPath) - Len(DOT_MD)) \o DOT_HTML
           ELSE mdResult.err

----------------------------------------------------------------------------
(* getFullHtml and Page.WriteFullPageHtmlToOutputPath *)

\* what the template at HTML_TEMPLATE_REL_PATH can do in one rendering: be
\* read, parsed and executed; fail to be read; fail to parse; or parse and
\* then fail while it executes
TemplateOutcomes == {"ok", "unreadable", "unparsable", "execfails"}

\* what file.WriteFile can do
DiskOutcomes == {"ok", "fails"}

\* getFullHtml: [val, err].  The errors of ReadFile and Parse are returned;
\* the value Execute returns is dropped, so after a failed execution the
\* buffer, holding what was rendered before the failure, is returned with no
\* error.
getFullHtml(tmpl) ==
    IF tmpl = "unreadable" THEN [val |-> "", err |-> TRUE]
    ELSE IF tmpl = "unparsable" THEN [val |-> "", err |-> TRUE]
    ELSE [val |-> IF tmpl = "execfails" THEN "partial html" ELSE "full html",
          err |-> FALSE]

\* Page.WriteFullPageHtmlToOutputPath: [err, kind, files], the files being
\* those on disk after the call
WriteFullPageHtmlToOutputPath(p, root, tmpl, disk, onDisk) ==
    LET fullHtml == getFullHtml(tmpl)
        absOutputPath == Join2(root, p.OutputPath)
        absOutputPathDotHtml == replaceMdFileExtensionWithHtmlFileExtension(absOutputPath)
    IN  IF fullHtml.err
        THEN [err |-> TRUE, kind |-> "template", files |-> onDisk]
        ELSE IF absOutputPathDotHtml.err
        THEN [err |-> TRUE, kind |-> "extension", files |-> onDisk]
        ELSE IF disk = "fails"
        THEN [err |-> TRUE, kind |-> "io", files |-> onDisk]
        ELSE [err |-> FALSE, kind |-> "none",
              files |-> {f \in onDisk : f.path # absOutputPathDotHtml.val}
                          \cup {[path |-> absOutputPathDotHtml.val,
                                 content |-> fullHtml.val]}]

\* the markdown extensions the classifier accepts
MarkdownExtensions ==
    { <<"m","a","r","k","d","o","w","n">>, <<"m","d","o","w","n">>,
      <<"m","k","d","n">>, <<"m","k","d">>, <<"m","d">> }

\* the folders of the output paths tried: none, one, two
WriteFolders == { <<>>, <<"m","/">>, <<"p","/","m","/">> }

\* the output paths tried: a file "a" with each markdown extension, and an
\* image, in each of the folders
WriteOutputPaths ==
    { d \o <<"a", ".">> \o e :
        d \in WriteFolders, e \in MarkdownExtensions \cup {<<"p","n","g">>} }

\* the output roots tried
RootOutputPaths == { <<"o","u","t">>, <<"/","o">>, <<".">> }

WriteInit ==
    /\ page \in [OutputPath : WriteOutputPaths]
    /\ rootOutputPath \in RootOutputPaths
    /\ writeResult = NotCalled
    /\ files = {}
    /\ LinkIdle /\ BodyIdle /\ MdIdle /\ DocIdle /\ TreeIdle

\* one call of page.WriteFullPageHtmlToOutputPath(rootFolder, rootOutputPath)
WritePage ==
    /\ ~writeResult.called
    /\ \E tmpl \in TemplateOutcomes, disk \in DiskOutcomes :
         LET r == WriteFullPageHtmlToOutputPath(page, rootOutputPath, tmpl, disk, files)
         IN  /\ writeResult' = [called |-> TRUE, err |-> r.err, kind |-> r.kind,
                                tmpl |-> tmpl, val |-> <<>>]
             /\ files' = r.files
    /\ UNCHANGED <<page, rootOutputPath, linkVars, bodyVars, mdVars, docVars, treeVars>>

WriteNext == WritePage

SpecWrite == WriteInit /\ [][WriteNext]_vars

\* the extension of a path: what follows the last "." of its last segment
Extension(path) ==
    LET name == From(path, LastSlash(path) + 1)
        dots == {k \in 1..Len(name) : name[k] = "."}
    IN  IF dots = {} THEN <<>>
        ELSE From(name, (CHOOSE k \in dots : \A d \in dots : d <= k) + 1)

\* a path with its extension replaced by "html"
WithHtmlExtension(path) ==
    SubSeq(path, 1, Len(path) - Len(Extension(path))) \o <<"h","t","m","l">>

\* C6: a page whose output path has any of the accepted markdown extensions
\* is written under the same name with the extension normalized to ".html":
\* the call does not fail because of the extension, and when it succeeds the
\* file of that name is on disk.
C6_EveryMarkdownExtensionWritten ==
    (writeResult.called /\ Extension(page.OutputPath) \in MarkdownExtensions)
        => /\ writeResult.kind # "extension"
           /\ ~writeResult.err
                 => \E f \in files :
                        f.path = Join2(rootOutputPath, WithHtmlExtension(page.OutputPath))

\* C8: when the template fails to parse or fails to execute, the call
\* returns an error and no file is written for the page.
C8_TemplateFailureIsAnError ==
    (writeResult.called /\ writeResult.tmpl \in {"unparsable", "execfails"})
        => /\ writeResult.err
           /\ files = {}

----------------------------------------------------------------------------
(* Module docs: the path pattern and getModuleDocOutputPath *)

RECURSIVE PackageNameRun(_, _)
\* the length of the longest run of package-name characters of s from i on
PackageNameRun(s, i) ==
    IF i <= Len(s) /\ IsPackageNameChar(s[i]) THEN 1 + PackageNameRun(s, i + 1) ELSE 0

\* IsModuleDocPath with "/" let into the file name
IsModuleDocPathAnyDepth(path) ==
    LET head1 == <<"p","a","c","k","a","g","e","s","/">>
        head2 == <<"/","m","o","d","u","l","e","s","/">>
        head3 == <<"/","_","d","o","c","s","/">>
        n1 == PackageNameRun(path, Len(head1) + 1)
        at2 == Len(head1) + n1 + 1
        n2 == PackageNameRun(path, at2 + Len(head2))
        at3 == at2 + Len(head2) + n2
        file == From(path, at3 + Len(head3))
    IN  /\ HasPrefix(path, head1)
        /\ n1 >= 1
        /\ OccursAt(path, head2, at2)
        /\ n2 >= 1
        /\ OccursAt(path, head3, at3)
        /\ \E e \in MarkdownExtensions :
              /\ HasSuffix(file, <<".">> \o e)
              /\ Len(file) > Len(e) + 1

\* the module-doc pattern: "packages/", a package name, "/modules/", a module
\* name, "/_docs/", a file name of package-name characters, "." and a
\* markdown extension, anchored at both ends
IsModuleDocPath(path) ==
    LET head1 == <<"p","a","c","k","a","g","e","s","/">>
        head2 == <<"/","m","o","d","u","l","e","s","/">>
        head3 == <<"/","_","d","o","c","s","/">>
        n1 == PackageNameRun(path, Len(head1) + 1)
        at2 == Len(head1) + n1 + 1
        n2 == PackageNameRun(path, at2 + Len(head2))
        at3 == at2 + Len(head2) + n2
        n3 == PackageNameRun(path, at3 + Len(head3))
        at4 == at3 + Len(head3) + n3
    IN  /\ HasPrefix(path, head1)
        /\ n1 >= 1
        /\ OccursAt(path, head2, at2)
        /\ n2 >= 1
        /\ OccursAt(path, head3, at3)
        /\ n3 >= 1
        /\ \E e \in MarkdownExtensions : From(path, at4) = <<".">> \o e

\* getModuleDocOutputPath(path): [val, err].  A path of the module-doc
\* pattern packages/<pkg>/modules/<module>/_docs/<file> becomes
\* packages/<pkg>/<module>/<file>; any other path is a malformed module-doc
\* path.
getModuleDocOutputPath(path) ==
    IF IsModuleDocPath(path)
    THEN LET segs == Split(path)
         IN  [val |-> JoinSegs(<<segs[1], segs[2], segs[4], segs[6]>>), err |-> FALSE]
    ELSE [val |-> <<>>, err |-> TRUE]

\* the folders the paths tried lie in
DocHeads ==
    { <<"p","a","c","k","a","g","e","s","/","m","o","d","u","l","e","-","v","p","c","/","m","o","d","u","l","e","s","/","v","p","c","-","a","p","p","/","_","d","o","c","s","/">>,
      <<"p","a","c","k","a","g","e","s","/","p"," ","q","/","m","o","d","u","l","e","s","/","m","_","1","/","_","d","o","c","s","/">>,
      <<"p","a","c","k","a","g","e","s","/","p","/","m","o","d","u","l","e","s","/","m","/","d","o","c","s","/">>,
      <<"p","a","c","k","a","g","e","s","5","/","p","/","m","o","d","u","l","e","s","/","m","/","_","d","o","c","s","/">>,
      <<"p","a","c","k","a","g","e","s","/","p","/","m","o","d","u","l","e","s","/","_","d","o","c","s","/">>,
      <<"p","a","c","k","a","g","e","s","/","p",".","q","/","m","o","d","u","l","e","s","/","m","/","_","d","o","c","s","/">> }

\* what follows the folder in the paths tried: files with and without a
\* markdown extension, files in subfolders, no file
DocTails ==
    { <<"m","o","d","u","l","e","-","d","o","c",".","m","d">>, <<"f",".","m","k","d">>, <<"f","_","1"," ","x",".","m","a","r","k","d","o","w","n">>, <<"f",".","m","d","o","w","n">>, <<"f",".","m","k","d","n">>,
      <<"s","u","b","f","o","l","d","e","r","/","f","i","l","e","_","n","a","m","e",".","m","d">>, <<"s","/","t","/","f",".","m","d">>, <<"s","/","f",".","t","x","t">>,
      <<"f",".","t","x","t">>, <<"f">>, <<>>, <<".","m","d">>, <<"f",".","g",".","m","d">> }

\* the paths tried
DocPaths == { h \o t : h \in DocHeads, t \in DocTails }

DocInit ==
    /\ docPath \in DocPaths
    /\ docResult = NotCalled
    /\ LinkIdle /\ BodyIdle /\ MdIdle /\ WriteIdle /\ TreeIdle

\* one call of getModuleDocOutputPath(docPath)
ResolveModuleDocOutputPath ==
    /\ ~docResult.called
    /\ docResult' = [called |-> TRUE] @@ getModuleDocOutputPath(docPath)
    /\ UNCHANGED <<docPath, linkVars, bodyVars, mdVars, writeVars, treeVars>>

DocNext == ResolveModuleDocOutputPath

SpecDoc == DocInit /\ [][DocNext]_vars

\* whether s is a non-empty name of package-name characters
IsName(s) == s # <<>> /\ \A k \in 1..Len(s) : IsPackageNameChar(s[k])

\* whether the segments are those of packages/<pkg>/modules/<module>/_docs/...
UnderModuleDocs(segs) ==
    /\ Len(segs) >= 6
    /\ segs[1] = <<"p","a","c","k","a","g","e","s">> /\ IsName(segs[2])
    /\ segs[3] = <<"m","o","d","u","l","e","s">> /\ IsName(segs[4])
    /\ segs[5] = <<"_","d","o","c","s">>

\* whether the segment is a file name with a markdown extension
IsMarkdownFile(seg) ==
    /\ Extension(seg) \in MarkdownExtensions
    /\ IsName(SubSeq(seg, 1, Len(seg) - Len(Extension(seg)) - 1))

\* C7: for a well-formed module-doc path
\* packages/<pkg>/modules/<module>/_docs/<file>, getModuleDocOutputPath
\* returns packages/<pkg>/<module>/<file> and no error; for a path with a
\* subfolder between _docs/ and the file it returns an error and no path.
C7_ModuleDocOutputPath ==
    docResult.called
        => LET segs == Split(docPath)
           IN  /\ (UnderModuleDocs(segs) /\ Len(segs) = 6 /\ IsMarkdownFile(segs[6]))
                     => /\ ~docResult.err
                        /\ docResult.val = <<"p","a","c","k","a","g","e","s","/">> \o segs[2] \o <<"/">> \o segs[4]
                                              \o <<"/">> \o segs[6]
               /\ (UnderModuleDocs(segs) /\ Len(segs) > 6)
                     => /\ docResult.err
                        /\ docResult.val = <<>>

\* C7's first case: the output path of a well-formed module-doc path
C7_Witness ==
    /\ docResult.called
    /\ docPath = <<"p","a","c","k","a","g","e","s","/","m","o","d","u","l","e","-","v","p","c","/","m","o","d","u","l","e","s","/","v","p","c","-","a","p","p","/","_","d","o","c","s","/","m","o","d","u","l","e","-","d","o","c",".","m","d">>
    /\ docResult.val = <<"p","a","c","k","a","g","e","s","/","m","o","d","u","l","e","-","v","p","c","/","v","p","c","-","a","p","p","/","m","o","d","u","l","e","-","d","o","c",".","m","d">>

\* C7's second case: the error for a path with a subfolder under _docs
C7_WitnessSubfolder ==
    /\ docResult.called
    /\ docPath = <<"p","a","c","k","a","g","e","s","/","m","o","d","u","l","e","-","v","p","c","/","m","o","d","u","l","e","s","/","v","p","c","-","a","p","p","/","_","d","o","c","s","/","s","u","b","f","o","l","d","e","r","/","f","i","l","e","_","n","a","m","e",".","m","d">>
    /\ docResult.err

----------------------------------------------------------------------------
(* The navigation tree: Folder.CreateFolderIfNotExist, Folder.AddPage and   *)
(* Page.AddToNavTree                                                        *)

\* the root folder's place in `folders`
Root == 1

\* the root folder: no name, an empty OutputPath, no parent
RootFolder ==
    [Name |-> <<>>, OutputPath |-> <<>>, ParentFolder |-> 0,
     Subfolders |-> <<>>, Pages |-> <<>>]

\* the elements of a sequence
Range(seq) == { seq[k] : k \in 1..Len(seq) }

\* the subfolders of folder f that bear the name
SubfoldersNamed(fs, f, name) == { c \in Range(fs[f].Subfolders) : fs[c].Name = name }

\* the ordered segments of a folder path: the names between its "/"
PathSegments(path) == SelectSeq(Split(path), LAMBDA seg : seg # <<>>)

RECURSIVE WalkOrCreate(_, _, _)
\* the walk of CreateFolderIfNotExist from folder cur along the segments:
\* a subfolder that bears the segment's name is entered, a missing one is
\* made under cur and entered: [folders, leaf]
WalkOrCreate(fs, cur, segs) ==
    IF segs = <<>> THEN [folders |-> fs, leaf |-> cur]
    ELSE LET name == Head(segs)
             found == SubfoldersNamed(fs, cur, name)
         IN  IF found # {}
             THEN WalkOrCreate(fs, CHOOSE c \in found : TRUE, Tail(segs))
             ELSE LET new == Len(fs) + 1
                      made == [Name |-> name,
                               OutputPath |-> Join2(fs[cur].OutputPath, name),
                               ParentFolder |-> cur,
                               Subfolders |-> <<>>, Pages |-> <<>>]
                  IN  WalkOrCreate(
                          Append([fs EXCEPT ![cur].Subfolders = Append(@, new)], made),
                          new, Tail(segs))

\* folder.CreateFolderIfNotExist(path): [folders, leaf]
CreateFolderIfNotExist(fs, f, path) == WalkOrCreate(fs, f, PathSegments(path))

\* folder.AddPage(page): the page joins the end of the folder's pages
AddPage(fs, f, p) == [fs EXCEPT ![f].Pages = Append(@, p)]

\* getContainingFolder that hands back the path it was given
getContainingFolderWholePath(path) == path

\* getContainingFolder
getContainingFolder(path) == Dir(path)

\* page.AddToNavTree(rootFolder), for page p with the given OutputPath: the
\* folders after the call
AddToNavTree(fs, p, outputPath) ==
    LET containingFolderPath == getContainingFolder(outputPath)
        containingFolder == CreateFolderIfNotExist(fs, Root, containingFolderPath)
    IN  AddPage(containingFolder.folders, containingFolder.leaf, p)

\* the output paths of the pages tried
PageOutputPaths ==
    { <<"a","/","b","/","x",".","h","t","m","l">>, <<"a","/","y",".","h","t","m","l">>, <<"z",".","h","t","m","l">>, <<"a","/","b","/","c","/","w",".","h","t","m","l">>, <<"b","/","x",".","h","t","m","l">> }

\* the folder paths CreateFolderIfNotExist is called with on its own
FolderPaths == { <<"a">>, <<"a","/","b">>, <<"c","/","d">>, <<>> }

Init ==
    /\ folders = <<RootFolder>>
    /\ inserted = <<>>
    /\ LinkIdle /\ BodyIdle /\ MdIdle /\ WriteIdle /\ DocIdle

\* a new page arrives and is added to the tree
InsertPage ==
    /\ Len(inserted) < MaxPages
    /\ \E outputPath \in PageOutputPaths :
         /\ folders' = AddToNavTree(folders, Len(inserted) + 1, outputPath)
         /\ inserted' = Append(inserted, [OutputPath |-> outputPath])
    /\ UNCHANGED <<linkVars, bodyVars, mdVars, writeVars, docVars>>

\* rootFolder.CreateFolderIfNotExist(path) is called on its own
CreateFolder ==
    /\ \E path \in FolderPaths :
         folders' = CreateFolderIfNotExist(folders, Root, path).folders
    /\ UNCHANGED <<inserted, linkVars, bodyVars, mdVars, writeVars, docVars>>

Next == InsertPage \/ CreateFolder

Spec == Init /\ [][Next]_vars

RECURSIVE NamesFromRoot(_, _)
\* the names of the folders on the way from the root down to folder f
NamesFromRoot(fs, f) ==
    IF f = Root THEN <<>> ELSE Append(NamesFromRoot(fs, fs[f].ParentFolder), fs[f].Name)

\* the folders that hold page p among their pages
FoldersHolding(fs, p) == { f \in 1..Len(fs) : p \in Range(fs[f].Pages) }

\* the segments of the directory part of an output path: all but the file
DirectorySegments(path) == SubSeq(Split(path), 1, Len(Split(path)) - 1)

\* C9: whatever the arrival order, each page is in the folder reached from
\* the root by the segments of the directory part of its output path, no
\* folder has two subfolders of one name, and a page with no directory part
\* ("z.html") is a page of the root itself.
C9_PageInFolderOfItsDirectory ==
    /\ \A p \in 1..Len(inserted) :
          \E f \in FoldersHolding(folders, p) :
              NamesFromRoot(folders, f) = DirectorySegments(inserted[p].OutputPath)
    /\ \A f \in 1..Len(folders) : \A c, d \in Range(folders[f].Subfolders) :
          folders[c].Name = folders[d].Name => c = d

\* how often p stands in the sequence
Count(seq, p) == Cardinality({ k \in 1..Len(seq) : seq[k] = p })

\* the folders that own folder c as a subfolder
Owners(fs, c) == { f \in 1..Len(fs) : c \in Range(fs[f].Subfolders) }

RECURSIVE ReachableIn(_, _, _)
\* the folders reached from the set `from` in at most n steps down
ReachableIn(fs, from, n) ==
    IF n = 0 THEN from
    ELSE ReachableIn(fs, from \cup UNION { Range(fs[f].Subfolders) : f \in from }, n - 1)

\* C10: every inserted page is in the pages of exactly one folder, once,
\* and that folder's OutputPath is a prefix of the directory of the page's
\* OutputPath; the folders form a tree under the root: the root has no
\* owner, every other folder has exactly one owner, which is its
\* ParentFolder, and is reached from the root.
C10_OneFolderPerPageAndNoCycles ==
    /\ \A p \in 1..Len(inserted) :
          /\ Cardinality(FoldersHolding(folders, p)) = 1
          /\ \A f \in FoldersHolding(folders, p) :
                /\ Count(folders[f].Pages, p) = 1
                /\ HasPrefix(Dir(inserted[p].OutputPath), folders[f].OutputPath)
    /\ Owners(folders, Root) = {}
    /\ \A c \in 2..Len(folders) :
          /\ Owners(folders, c) = {folders[c].ParentFolder}
          /\ Count(folders[folders[c].ParentFolder].Subfolders, c) = 1
    /\ ReachableIn(folders, {Root}, Len(folders)) = 1..Len(folders)

\* C10's case: a/b/x.html, a/y.html and z.html have arrived, in that order,
\* and the folders a and a/b exist
C10_Witness ==
    /\ Len(inserted) = 3
    /\ inserted[1].OutputPath = <<"a","/","b","/","x",".","h","t","m","l">>
    /\ inserted[2].OutputPath = <<"a","/","y",".","h","t","m","l">>
    /\ inserted[3].OutputPath = <<"z",".","h","t","m","l">>
    /\ \E f, g \in 1..Len(folders) :
          /\ folders[f].OutputPath = <<"a">> /\ folders[f].Pages = <<2>>
          /\ folders[g].OutputPath = <<"a","/","b">> /\ folders[g].Pages = <<1>>
          /\ folders[g].ParentFolder = f

----------------------------------------------------------------------------
(* The link resolver and the link rewriter together *)

LinkBodyInit == LinkInit \/ BodyInit

\* one call of convertMarkdownLinksToUrls on the body as it was read
RewriteLinksOnce == passes = 0 /\ RewriteLinks

LinkBodyNext == ResolveLink \/ RewriteLinksOnce

\* calls of convertPackageLinkToUrl on its own, and calls of
\* convertMarkdownLinksToUrls on bodies
SpecLinkBody == LinkBodyInit /\ [][LinkBodyNext]_vars

\* whether the path is packages/<pkg>/..., with a package name of
\* package-name characters and a "/" after it
IsPackageScoped(path) ==
    /\ Len(Split(path)) >= 3
    /\ Split(path)[1] = <<"p","a","c","k","a","g","e","s">>
    /\ IsName(Split(path)[2])

\* C11: convertPackageLinkToUrl returns no error, whatever the inputPath and
\* the link: getPackageName and getPathRelativeToPackageRoot do not fail for
\* a path isPackageInputPath accepts.  So convertMarkdownLinksToUrls returns
\* no error either, and for an inputPath outside the packages it returns the
\* body as it was.
C11_LinkResolutionNeverFails ==
    /\ linkResult.called
          => /\ ~linkResult.err
             /\ ~IsPackageScoped(inputPath) => linkResult.val = linkPath
    /\ isPackageInputPath(inputPath)
          => /\ ~getPackageName(inputPath).err
             /\ ~getPathRelativeToPackageRoot(inputPath).err
    /\ ~bodyErr
    /\ (passes >= 1 /\ ~IsPackageScoped(inputPath)) => newBody = body

\* C11's case: a pass over a body of a package page, with a "./" link that
\* is resolved through getPackageName and getPathRelativeToPackageRoot, has
\* returned the rewritten body and no error
C11_Witness ==
    /\ passes = 1
    /\ ~bodyErr
    /\ inputPath = <<"p","a","c","k","a","g","e","s","/","p","/","m","/","a",".","m","d">>
    /\ body = <<"(",".","/","x",")">>
    /\ newBody = <<"(","h","t","t","p","s",":","/","/","g","i","t","h","u","b",".","c","o","m","/","g","r","u","n","t","w","o","r","k","-","i","o","/","p","/","t","r","e","e","/","m","a","s","t","e","r","/","m","/","a",".","m","d",")">>

\* C11's other case: the body of a page outside the packages, links and
\* all, after a pass
C11_WitnessNonPackage ==
    /\ passes = 1
    /\ inputPath = <<"g","l","o","b","a","l","/","a",".","m","d">>
    /\ body = <<"(",".",".","/","x",")">>
    /\ newBody = body

====
